---- MODULE Spec2Model ----
(***************************************************************************)
(* Session identity and chat-history delivery of the support chat          *)
(* application: the relational store (users, chat_sessions, messages),     *)
(* the chat route's action (one send-message turn), the history loader     *)
(* with keyset pagination, and identity migration at sign-in.              *)
(*                                                                         *)
(* Every handler is cut at its await points on the database and on the     *)
(* upstream services: one action of the model is one database statement    *)
(* (or the settling of the upstream calls) together with the synchronous   *)
(* code that follows it up to the next await.                              *)
(***************************************************************************)
EXTENDS Integers, Sequences, FiniteSets, TLC

VARIABLES
    users,          \* table users: id -> row
    chat_sessions,  \* table chat_sessions: id -> row
    messages,       \* table messages: set of rows (id is the primary key)
    now,            \* the wall clock read by new Date()
    uuid,           \* the last value handed out by uuidv7()
    turn,           \* the invocations of the chat route's action
    runs,           \* how many invocations of the action have started
    faults,         \* how many database statements have failed
    query,          \* one call of getChatMessages: its arguments and result
    scroll,         \* a browser scrolling back through one session's history
    pending,        \* createMessage calls whose INSERT has not executed yet
    login,          \* one call of authenticateWithMigration
    migration,      \* the calls of migrateAnonymousUserToAuthenticated(A, U)
    signins         \* calls of authenticateWithMigration for one identity

vars == <<users, chat_sessions, messages, now, uuid, turn, runs, faults,
          query, scroll, pending, login, migration, signins>>

----------------------------------------------------------------------------
(* Bounds of the model *)

\* invocations of the action that may start in one behaviour
MaxRuns == 2

\* database statements that may fail (connection loss, constraint violation)
\* in one behaviour
MaxFaults == 1

\* ids uuidv7() may hand out in the history specification
MaxMsgs == 25

\* createMessage calls in flight at one time in the history specification
MaxPending == 1

\* the oldest ids among which one may belong to the other session
MaxOther == 1

\* ids of the tables, and the largest limit, getChatMessages is called with
MaxQueryIds == 5
MaxQueryLimit == 3

\* chat sessions the anonymous visitor owns when signing in
MaxAnonSessions == 2

\* messages the store holds when the visitor signs in
MaxAuthMsgs == 4

\* history requests of the browser around a sign-in
MaxViews == 2

----------------------------------------------------------------------------
(* Values *)

NULL == "null"

\* the absent id (undefined, or a NULL column that holds an id or a token)
NoId == 0

\* the route parameter "new": a session not created yet
NewParam == -1

FALLBACK == "I'm sorry, I'm having trouble processing your request right now. Please try again later."

\* the request slots in which the invocations of the action run
Reqs == {"r1", "r2"}

\* the slot of the requests that are made one at a time
Solo == {"r1"}

\* session cookies a browser may present: none, or the one a user was given
NoCookie == [userId |-> NoId, sessionId |-> NoId]

\* the texts a send-message form may carry (one blank, one not)
MessageTexts == {" ", "What is my balance?"}

Intents == {"send-message", "new-chat", "bogus"}

\* String.prototype.trim(), on the texts of the model
trim(s) == IF s = " " THEN "" ELSE s

\* JSON.stringify of the retrieval sources: the text that holds the list
JSONstringify(v) == IF v = <<>> THEN "[]" ELSE "[\"faq-1\"]"

\* what the completion service may answer: a rejected promise, a fulfilled one
\* without data (an HTTP error reported in .error), or a response body
ChatBodies ==
    { [response |-> "Your balance is $42", reasoning |-> "ledger lookup",
       contexts |-> <<"faq-1">>],
      [response |-> "Your balance is $42", reasoning |-> NULL,
       contexts |-> <<>>] }

\* result.data of a call that brought no body back (undefined)
NoChatData == [response |-> NULL, reasoning |-> NULL, contexts |-> <<>>]

NoTitleData == [title |-> NULL]

ChatOutcomes ==
    { [status |-> "rejected", data |-> NoChatData],
      [status |-> "fulfilled", data |-> NoChatData] }
    \cup { [status |-> "fulfilled", data |-> b] : b \in ChatBodies }

\* the title the title service makes up for request r
TitleFor(r) == IF r = "r1" THEN "Balance Inquiry" ELSE "Account Balance"

\* what the title service may answer to request r
TitleOutcomes(r) ==
    { [status |-> "rejected", data |-> NoTitleData],
      [status |-> "fulfilled", data |-> NoTitleData],
      [status |-> "fulfilled", data |-> [title |-> TitleFor(r)]] }

\* no title request was made: Promise.allSettled yields one result only
NoTitleResult == [status |-> "none", data |-> NoTitleData]

----------------------------------------------------------------------------
(* lib/db/chat.server.ts *)

Min(a, b) == IF a <= b THEN a ELSE b

\* ORDER BY id DESC
RECURSIVE orderByIdDesc(_)
orderByIdDesc(rows) ==
    IF rows = {} THEN <<>>
    ELSE LET top == CHOOSE r \in rows : \A q \in rows : q.id <= r.id
         IN  <<top>> \o orderByIdDesc(rows \ {top})

\* rows left in the order of the query (newest first): the pages of a scroll
\* tell this from reverse
keepOrder(s) == s

\* Array.prototype.reverse()
reverse(s) == [i \in 1..Len(s) |-> s[Len(s) + 1 - i]]

\* LIMIT n
limitRows(s, n) == SubSeq(s, 1, Min(n, Len(s)))

\* WHERE id <= beforeMessageId: the page below a cursor tells this from
\* beforeFilter
beforeFilterInclusive(id, beforeMessageId) ==
    beforeMessageId # NoId => id <= beforeMessageId

\* WHERE id < beforeMessageId, applied only when a cursor is given
beforeFilter(id, beforeMessageId) ==
    beforeMessageId # NoId => id < beforeMessageId

\* getChatMessages(chatSessionId, beforeMessageId, limit) on table msgs
getChatMessages(msgs, chatSessionId, beforeMessageId, limit) ==
    LET rows == { m \in msgs : /\ m.chat_session_id = chatSessionId
                               /\ beforeFilter(m.id, beforeMessageId) }
    IN  reverse(limitRows(orderByIdDesc(rows), limit))

\* a lookup by id alone, without WHERE user_id = userId: a request for the
\* session of another visitor tells this from getChatSession
getChatSessionOfAnyone(cs, sessionId, userId) ==
    IF sessionId \in DOMAIN cs THEN sessionId ELSE NoId

\* getChatSession(sessionId, userId): the row's id, or NoId when no row matches
getChatSession(cs, sessionId, userId) ==
    IF sessionId \in DOMAIN cs /\ cs[sessionId].user_id = userId
    THEN sessionId ELSE NoId

\* the trailing window of messages sent to the completion service
HistoryWindow == 6

\* the row createChatSession(userId) inserts (title || null)
newChatSessionRow(userId, t) ==
    [user_id |-> userId, title |-> NULL, updated_at |-> t]

\* the row createMessage(data) inserts (reasoning || null, contextUsed || null)
newMessageRow(id, chatSessionId, content, role, reasoning, contextUsed) ==
    [id |-> id, chat_session_id |-> chatSessionId, content |-> content,
     role |-> role, reasoning |-> reasoning, context_used |-> contextUsed]

\* a write that leaves the new row as the table's only row: the messages that
\* were there tell this from insertMessage
replaceMessages(ms, row) == {row}

\* db.insertInto("messages").values(row): the row is added to the table
insertMessage(ms, row) == ms \cup {row}

\* an UPDATE that matches no row: the session's updated_at after a turn tells
\* this from updateChatSessionTimestamp
keepChatSessionTimestamp(cs, sessionId, t) == cs

\* UPDATE chat_sessions SET updated_at = now WHERE id = sessionId
updateChatSessionTimestamp(cs, sessionId, t) ==
    [s \in DOMAIN cs |->
        IF s = sessionId THEN [cs[s] EXCEPT !.updated_at = t] ELSE cs[s]]

\* an UPDATE that sets updated_at and leaves the title: the title after a
\* first turn tells this from updateChatSessionTitle
keepChatSessionTitle(cs, sessionId, title, t) ==
    updateChatSessionTimestamp(cs, sessionId, t)

\* UPDATE chat_sessions SET title, updated_at WHERE id = sessionId
updateChatSessionTitle(cs, sessionId, title, t) ==
    [s \in DOMAIN cs |->
        IF s = sessionId
        THEN [cs[s] EXCEPT !.title = title, !.updated_at = t]
        ELSE cs[s]]

----------------------------------------------------------------------------
(* lib/session/auth.server.ts *)

\* getUserBySessionId(sessionId): the id of the row with that token, or NoId
getUserBySessionId(us, sessionId) ==
    IF \E u \in DOMAIN us : us[u].session_id = sessionId
    THEN CHOOSE u \in DOMAIN us : us[u].session_id = sessionId
    ELSE NoId

\* createId(): an id no row of the table has
createId(us) == Cardinality(DOMAIN us) + 1

\* the token createId() makes for the new anonymous user u: tokens are
\* numbers of their own, unique per user
newToken(u) == 100 + u

\* the row requireSession inserts for a first-contact visitor
newAnonymousUserRow(token, t) ==
    [session_id |-> token, workos_id |-> NULL, email |-> NULL,
     is_anonymous |-> TRUE, updated_at |-> t]

\* a resolver that knows anonymous cookies only: a cookie of the authenticated
\* state tells this from requireSession
requireSessionAnonymous(us, cookie, t) ==
    IF /\ cookie.sessionId # NoId
       /\ cookie.userId # NoId
       /\ getUserBySessionId(us, cookie.sessionId) # NoId
    THEN [users |-> us, session |-> cookie, userId |-> cookie.userId,
          isAuthenticated |-> FALSE, created |-> FALSE]
    ELSE LET id == createId(us)
             tok == newToken(id)
         IN  [users |-> [u \in DOMAIN us \cup {id} |->
                            IF u = id THEN newAnonymousUserRow(tok, t)
                            ELSE us[u]],
              session |-> [userId |-> id, sessionId |-> tok],
              userId |-> id, isAuthenticated |-> FALSE, created |-> TRUE]

\* requireSession(request): what it returns and the users table it leaves.
\* userId is taken from the cookie on both lookup paths.
requireSession(us, cookie, t) ==
    IF /\ cookie.userId # NoId
       /\ cookie.sessionId = NoId
       /\ cookie.userId \in DOMAIN us
       /\ ~us[cookie.userId].is_anonymous
    THEN [users |-> us, session |-> cookie, userId |-> cookie.userId,
          isAuthenticated |-> TRUE, created |-> FALSE]
    ELSE IF /\ cookie.sessionId # NoId
            /\ cookie.userId # NoId
            /\ getUserBySessionId(us, cookie.sessionId) # NoId
    THEN [users |-> us, session |-> cookie, userId |-> cookie.userId,
          isAuthenticated |-> FALSE, created |-> FALSE]
    ELSE LET id == createId(us)
             tok == newToken(id)
         IN  [users |-> [u \in DOMAIN us \cup {id} |->
                            IF u = id THEN newAnonymousUserRow(tok, t)
                            ELSE us[u]],
              session |-> [userId |-> id, sessionId |-> tok],
              userId |-> id, isAuthenticated |-> FALSE, created |-> TRUE]

\* getUserByWorkOSId(workosId): the id of the row with that WorkOS id, or NoId
getUserByWorkOSId(us, workosId) ==
    IF \E u \in DOMAIN us : us[u].workos_id = workosId
    THEN CHOOSE u \in DOMAIN us : us[u].workos_id = workosId
    ELSE NoId

\* a row for a WorkOS user that carries an anonymous token as well: the rows
\* of users tell this from newWorkOSUserRow
workOSUserRowWithToken(workosUserId, email, t) ==
    [session_id |-> newToken(0), workos_id |-> workosUserId, email |-> email,
     is_anonymous |-> FALSE, updated_at |-> t]

\* the row getOrCreateWorkOSUser inserts at the first sign-in (no session_id)
newWorkOSUserRow(workosUserId, email, t) ==
    [session_id |-> NoId, workos_id |-> workosUserId, email |-> email,
     is_anonymous |-> FALSE, updated_at |-> t]

\* SELECT FROM users WHERE id = currentUserId AND is_anonymous = true: the id
\* of the row, or NoId
selectAnonymousUser(us, currentUserId) ==
    IF currentUserId \in DOMAIN us /\ us[currentUserId].is_anonymous
    THEN currentUserId ELSE NoId

\* an UPDATE that reassigns no row: the history the authenticated user is
\* given tells this from reassignSessions
reassignNone(cs, ids, authenticatedUserId) == cs

\* UPDATE chat_sessions SET user_id = authenticatedUserId on the rows ids
reassignSessions(cs, ids, authenticatedUserId) ==
    [s \in DOMAIN cs |->
        IF s \in ids THEN [cs[s] EXCEPT !.user_id = authenticatedUserId]
        ELSE cs[s]]

\* UPDATE users SET updated_at = t WHERE id = anonymousUserId
touchUser(us, anonymousUserId, t) ==
    [u \in DOMAIN us |->
        IF u = anonymousUserId THEN [us[u] EXCEPT !.updated_at = t]
        ELSE us[u]]

\* the writes of a transaction that are held back until it commits: the chat
\* sessions its first UPDATE matched, and whether its second UPDATE has run
NoTrx == [sessions |-> {}, touched |-> FALSE]

\* writes that outlive the failure of their transaction: the state after a
\* failed migration tells this from rolledBack
keptWrites(trx) == trx

\* db.transaction().execute(...) rejects: the transaction is rolled back and
\* none of its writes is applied
rolledBack(trx) == NoTrx

\* the tables once the held-back writes trx of a migration are applied
sessionsAfter(cs, trx, authenticatedUserId) ==
    reassignSessions(cs, trx.sessions, authenticatedUserId)

usersAfter(us, trx, anonymousUserId, t) ==
    IF trx.touched THEN touchUser(us, anonymousUserId, t) ELSE us

\* the calls of authenticateWithMigration that may run side by side
SignIns == {"s1", "s2"}

\* a call of authenticateWithMigration that has not been made
IdleSignIn ==
    [pc |-> "idle", cookie |-> NoCookie, currentUserId |-> NoId,
     authId |-> NoId, newId |-> NoId, ts |-> 0, found |-> FALSE,
     outcome |-> "none", migrated |-> "none",
     result |-> [session |-> NoCookie, user |-> NoId,
                 isAuthenticated |-> FALSE]]

\* the calls of migrateAnonymousUserToAuthenticated that may run side by side
Calls == {"m1", "m2"}

\* a call that has not been made; cs0 is the table chat_sessions as the call
\* found it, overlapped whether another call was running when it began
IdleMigration ==
    [pc |-> "idle", trx |-> NoTrx, ts |-> 0, outcome |-> "none",
     cs0 |-> <<>>, overlapped |-> FALSE]

\* an UPDATE of chat_sessions with no WHERE clause: the sessions of the other
\* users tell this from sessionsOwnedBy
sessionsOwnedByAnyone(cs, userId) == DOMAIN cs

\* the rows of chat_sessions WHERE user_id = userId
sessionsOwnedBy(cs, userId) ==
    { s \in DOMAIN cs : cs[s].user_id = userId }

\* a cookie left as the request sent it: the cookie of a sign-in tells this
\* from authenticatedCookie
keepCookie(cookie, authenticatedUserId) == cookie

\* session.set("userId", authenticatedUser.id); session.unset("sessionId")
authenticatedCookie(cookie, authenticatedUserId) ==
    [userId |-> authenticatedUserId, sessionId |-> NoId]

\* no response of the history loader
NoView == [param |-> NoId, before |-> NoId, status |-> 0, page |-> <<>>]

\* no call of authenticateWithMigration yet; cookie is the cookie the browser
\* holds
IdleLogin ==
    [pc |-> "idle", cookie |-> NoCookie,
     workosUserId |-> NULL, email |-> NULL, currentUserId |-> NoId,
     authId |-> NoId, newId |-> NoId, ts |-> 0, trx |-> NoTrx,
     outcome |-> "none", failedAt |-> "none", raised |-> FALSE,
     loggedOut |-> FALSE,
     result |-> [session |-> NoCookie,
                 user |-> NoId, isAuthenticated |-> FALSE],
     owned0 |-> {}, anon0 |-> newAnonymousUserRow(NoId, 0),
     users0 |-> <<>>, cs0 |-> <<>>, msgs0 |-> {}, view0 |-> NoView]

----------------------------------------------------------------------------
(* routes/chat/$sessionId/page.tsx: action *)

\* no call of getChatMessages on its own
IdleQuery ==
    [pc |-> "idle", chatSessionId |-> NoId, beforeMessageId |-> NoId,
     limit |-> 0, result |-> <<>>]

\* what the action leaves alone: the state of the other handlers
TurnFrame ==
    UNCHANGED <<query, scroll, pending, login, migration, signins>>

\* a title request issued whether or not the session has a title: a turn on
\* a session that has one tells this from needsTitle
needsTitleAlways(title) == TRUE

\* const needsTitle = !chatSession.title, for a title that is null or a
\* title the title service made
needsTitle(title) == title = NULL

\* chatPromise = chatCompletionApiV1ChatPost(...); titlePromise = needsTitle ?
\* generateChatTitleApiV1GenerateTitlePost(...) : null
issueRequests(title) == [chat |-> TRUE, title |-> needsTitle(title)]

\* an invocation that has not started
IdleTurn ==
    [pc |-> "idle", session |-> NoCookie, userId |-> NoId, param |-> NoId,
     intent |-> "bogus", message |-> " ", sid |-> NoId, title0 |-> NULL,
     mid |-> NoId, ts |-> 0, history |-> <<>>, needsTitle |-> FALSE,
     chat |-> [status |-> "none", data |-> NoChatData],
     title |-> NoTitleResult, caught |-> FALSE, dbError |-> FALSE,
     result |-> "none", created |-> {}, asst |-> {}, asstAt |-> 0,
     cookie |-> NoCookie, newUser |-> NoId, issued |-> [chat |-> FALSE, title |-> FALSE],
     userMid |-> NoId, userAt |-> 0]

\* a user whose row is no longer in the store (the database was restored or
\* emptied) and the cookie requireSession once gave that user
StaleUser == 9
StaleCookie == [userId |-> StaleUser, sessionId |-> newToken(StaleUser)]

\* the cookies browsers hold: none, one whose user row is gone, or the one
\* requireSession gave a visitor
Cookies ==
    {NoCookie, StaleCookie} \cup
    { [userId |-> u, sessionId |-> users[u].session_id] :
        u \in { v \in DOMAIN users : users[v].is_anonymous } }

\* the id of a chat session that does not exist
MissingSession == 99

\* the :sessionId of a request: a chat session, "new", or an id of no session
SessionParams == DOMAIN chat_sessions \cup {NewParam, MissingSession}

\* the invocation ends: it returns a value or a redirect, or it throws
Finish(r, how) ==
    turn' = [turn EXCEPT ![r].pc = "done", ![r].result = how]

\* a database statement of invocation r fails outside the try block
Raise(r) ==
    /\ faults < MaxFaults
    /\ faults' = faults + 1
    /\ turn' = [turn EXCEPT ![r].pc = "done", ![r].result = "raised",
                            ![r].dbError = TRUE]

\* a database statement of invocation r fails inside the try block: the catch
\* block is entered
Caught(r) ==
    /\ faults < MaxFaults
    /\ faults' = faults + 1
    /\ turn' = [turn EXCEPT ![r] =
            [turn[r] EXCEPT !.pc = "fallbackMsg", !.caught = TRUE,
                            !.mid = uuid + 1, !.dbError = TRUE]]
    /\ uuid' = uuid + 1

\* the catch block is entered: createMessage(fallback) is called, which draws
\* the row's id
EnterCatch(r, t) ==
    [t EXCEPT !.pc = "fallbackMsg", !.caught = TRUE, !.mid = uuid + 1]

\* const { session, userId } = await requireSession(request); the form is
\* read; then createChatSession (its id drawn at the call) or getChatSession
\* is called
ActionStart(r) ==
    /\ turn[r].pc \in {"idle", "done"}
    /\ runs < MaxRuns
    /\ \E cookie \in Cookies, param \in SessionParams,
          intent \in Intents, message \in MessageTexts :
        LET rs == requireSession(users, cookie, now)
            \* new Date() is read by requireSession's insert and again by
            \* createChatSession
            t1 == IF rs.created THEN now + 1 ELSE now
        IN  /\ (intent # "send-message" => message = " ")
            /\ users' = rs.users
            /\ now' = IF param = NewParam THEN t1 + 1 ELSE t1
            /\ uuid' = IF param = NewParam THEN uuid + 1 ELSE uuid
            /\ turn' = [turn EXCEPT ![r] =
                   [IdleTurn EXCEPT
                      !.pc = "session", !.session = rs.session,
                      !.userId = rs.userId, !.param = param,
                      !.intent = intent, !.message = message,
                      !.sid = IF param = NewParam THEN uuid + 1 ELSE param,
                      !.ts = t1, !.cookie = cookie,
                      !.newUser = IF rs.created THEN rs.userId ELSE NoId]]
    /\ runs' = runs + 1
    /\ UNCHANGED <<chat_sessions, messages, faults>>
    /\ TurnFrame

\* the code after the session is known: the intent is dispatched
Dispatch(r, t, title) ==
    IF t.intent = "send-message"
    THEN IF trim(t.message) = ""
         THEN /\ turn' = [turn EXCEPT ![r] =
                    [t EXCEPT !.pc = "done", !.result = "error",
                              !.title0 = title]]
              /\ UNCHANGED <<uuid, now>>
         ELSE \* createMessage is called: uuidv7() draws the row's id
              /\ turn' = [turn EXCEPT ![r] =
                    [t EXCEPT !.pc = "userMsg", !.title0 = title,
                              !.mid = uuid + 1]]
              /\ uuid' = uuid + 1
              /\ UNCHANGED now
    ELSE IF t.intent = "new-chat"
    THEN \* createChatSession is called: it draws an id and reads the clock
         /\ turn' = [turn EXCEPT ![r] =
               [t EXCEPT !.pc = "newChat", !.title0 = title,
                         !.mid = uuid + 1, !.ts = now]]
         /\ uuid' = uuid + 1
         /\ now' = now + 1
    ELSE /\ turn' = [turn EXCEPT ![r] =
               [t EXCEPT !.pc = "done", !.result = "error",
                         !.title0 = title]]
         /\ UNCHANGED <<uuid, now>>

\* chatSession = await createChatSession(userId) for "new", else
\* await getChatSession(sessionId, userId), a 404 when there is no row
ActionSession(r) ==
    LET t == turn[r] IN
    /\ t.pc = "session"
    /\ \/ /\ t.param = NewParam
          /\ chat_sessions' =
                [s \in DOMAIN chat_sessions \cup {t.sid} |->
                    IF s = t.sid THEN newChatSessionRow(t.userId, t.ts)
                    ELSE chat_sessions[s]]
          /\ Dispatch(r, [t EXCEPT !.created = {t.sid}], NULL)
          /\ UNCHANGED faults
       \/ /\ t.param # NewParam
          /\ getChatSession(chat_sessions, t.param, t.userId) # NoId
          /\ Dispatch(r, t, chat_sessions[t.param].title)
          /\ UNCHANGED <<chat_sessions, faults>>
       \/ /\ t.param # NewParam
          /\ getChatSession(chat_sessions, t.param, t.userId) = NoId
          /\ Finish(r, "404")
          /\ UNCHANGED <<chat_sessions, uuid, now, faults>>
       \/ /\ Raise(r)
          /\ UNCHANGED <<chat_sessions, uuid, now>>
    /\ UNCHANGED <<users, messages, runs>>
    /\ TurnFrame

\* intent "new-chat": const newSession = await createChatSession(userId)
ActionNewChat(r) ==
    LET t == turn[r] IN
    /\ t.pc = "newChat"
    /\ \/ /\ chat_sessions' =
                [s \in DOMAIN chat_sessions \cup {t.mid} |->
                    IF s = t.mid THEN newChatSessionRow(t.userId, t.ts)
                    ELSE chat_sessions[s]]
          /\ turn' = [turn EXCEPT ![r].pc = "done", ![r].result = "redirect",
                         ![r].created = t.created \cup {t.mid},
                         ![r].sid = t.mid]
          /\ UNCHANGED faults
       \/ /\ Raise(r)
          /\ UNCHANGED chat_sessions
    /\ UNCHANGED <<users, messages, now, uuid, runs>>
    /\ TurnFrame

\* await createMessage({chatSessionId, content: message, role: "user"}); then
\* updateChatSessionTimestamp is called, which reads the clock
ActionUserMessage(r) ==
    LET t == turn[r] IN
    /\ t.pc = "userMsg"
    /\ \/ /\ messages' = insertMessage(messages,
                newMessageRow(t.mid, t.sid, t.message, "user", NULL, NULL))
          /\ turn' = [turn EXCEPT ![r].pc = "bump1", ![r].ts = now,
                         ![r].userMid = t.mid, ![r].userAt = now]
          /\ now' = now + 1
          /\ UNCHANGED faults
       \/ /\ Raise(r)
          /\ UNCHANGED <<messages, now>>
    /\ UNCHANGED <<users, chat_sessions, uuid, runs>>
    /\ TurnFrame

\* await updateChatSessionTimestamp(actualSessionId); then getChatMessages is
\* called
ActionBumpAfterUser(r) ==
    LET t == turn[r] IN
    /\ t.pc = "bump1"
    /\ \/ /\ chat_sessions' =
                updateChatSessionTimestamp(chat_sessions, t.sid, t.ts)
          /\ turn' = [turn EXCEPT ![r].pc = "history"]
          /\ UNCHANGED faults
       \/ /\ Raise(r)
          /\ UNCHANGED chat_sessions
    /\ UNCHANGED <<users, messages, now, uuid, runs>>
    /\ TurnFrame

\* recentMessages = await getChatMessages(actualSessionId, undefined, 6); then,
\* inside the try block, needsTitle is computed and the completion request and,
\* if needsTitle, the title request are issued
ActionHistory(r) ==
    LET t == turn[r] IN
    /\ t.pc = "history"
    /\ \/ /\ turn' = [turn EXCEPT
                ![r].pc = "upstream",
                ![r].history =
                    LET recent == getChatMessages(messages, t.sid, NoId,
                                                  HistoryWindow)
                    IN  [i \in 1..Len(recent) |->
                            [role |-> recent[i].role,
                             content |-> recent[i].content]],
                ![r].needsTitle = needsTitle(t.title0),
                ![r].issued = issueRequests(t.title0)]
          /\ UNCHANGED faults
       \/ Raise(r)
    /\ UNCHANGED <<users, chat_sessions, messages, now, uuid, runs>>
    /\ TurnFrame

\* await Promise.allSettled([chatPromise, titlePromise?]) and the code up to
\* the next await: a rejected call or a missing body throws into the catch
\* block, otherwise createMessage(assistant) is called
ActionUpstream(r) ==
    LET t == turn[r] IN
    /\ t.pc = "upstream"
    /\ \E chat \in ChatOutcomes,
          title \in (IF t.issued.title THEN TitleOutcomes(r)
                     ELSE {NoTitleResult}) :
        LET t1 == [t EXCEPT !.chat = chat, !.title = title]
            throws == \/ chat.status = "rejected"
                      \/ title.status = "rejected"
                      \/ chat.data = NoChatData
        IN  turn' = [turn EXCEPT ![r] =
                IF throws THEN EnterCatch(r, t1)
                ELSE [t1 EXCEPT !.pc = "asstMsg", !.mid = uuid + 1]]
    /\ uuid' = uuid + 1
    /\ UNCHANGED <<users, chat_sessions, messages, now, runs, faults>>
    /\ TurnFrame

\* the retrieval sources as they are saved: JSON when there are any
contextsJson(responseData) ==
    IF Len(responseData.contexts) > 0
    THEN JSONstringify(responseData.contexts) ELSE NULL

\* await createMessage({content: responseData.response, role: "assistant",
\* reasoning, contextUsed}); then updateChatSessionTimestamp is called
ActionAssistantMessage(r) ==
    LET t == turn[r]
        d == t.chat.data
    IN
    /\ t.pc = "asstMsg"
    /\ \/ /\ messages' = insertMessage(messages,
                newMessageRow(t.mid, t.sid, d.response, "assistant",
                              d.reasoning, contextsJson(d)))
          /\ turn' = [turn EXCEPT ![r].pc = "bump2", ![r].ts = now,
                         ![r].asst = t.asst \cup {t.mid},
                         ![r].asstAt = now]
          /\ now' = now + 1
          /\ UNCHANGED <<uuid, faults>>
       \/ /\ Caught(r)
          /\ UNCHANGED <<messages, now>>
    /\ UNCHANGED <<users, chat_sessions, runs>>
    /\ TurnFrame

\* await updateChatSessionTimestamp(actualSessionId); then, if titleData,
\* updateChatSessionTitle is called, else the redirect is returned
ActionBumpAfterAssistant(r) ==
    LET t == turn[r] IN
    /\ t.pc = "bump2"
    /\ \/ /\ chat_sessions' =
                updateChatSessionTimestamp(chat_sessions, t.sid, t.ts)
          /\ IF t.title.status = "fulfilled" /\ t.title.data # NoTitleData
             THEN /\ turn' = [turn EXCEPT ![r].pc = "title", ![r].ts = now]
                  /\ now' = now + 1
             ELSE /\ Finish(r, "redirect")
                  /\ UNCHANGED now
          /\ UNCHANGED <<uuid, faults>>
       \/ /\ Caught(r)
          /\ UNCHANGED <<chat_sessions, now>>
    /\ UNCHANGED <<users, messages, runs>>
    /\ TurnFrame

\* await updateChatSessionTitle(actualSessionId, titleData.title); the redirect
ActionTitle(r) ==
    LET t == turn[r] IN
    /\ t.pc = "title"
    /\ \/ /\ chat_sessions' =
                updateChatSessionTitle(chat_sessions, t.sid,
                                       t.title.data.title, t.ts)
          /\ Finish(r, "redirect")
          /\ UNCHANGED <<uuid, faults>>
       \/ /\ Caught(r)
          /\ UNCHANGED chat_sessions
    /\ UNCHANGED <<users, messages, now, runs>>
    /\ TurnFrame

\* catch: await createMessage({content: fallback, role: "assistant"}); then
\* updateChatSessionTimestamp is called
ActionFallbackMessage(r) ==
    LET t == turn[r] IN
    /\ t.pc = "fallbackMsg"
    /\ \/ /\ messages' = insertMessage(messages,
                newMessageRow(t.mid, t.sid, FALLBACK, "assistant",
                              NULL, NULL))
          /\ turn' = [turn EXCEPT ![r].pc = "bump3", ![r].ts = now,
                         ![r].asst = t.asst \cup {t.mid},
                         ![r].asstAt = now]
          /\ now' = now + 1
          /\ UNCHANGED faults
       \/ /\ Raise(r)
          /\ UNCHANGED <<messages, now>>
    /\ UNCHANGED <<users, chat_sessions, uuid, runs>>
    /\ TurnFrame

\* catch: await updateChatSessionTimestamp(actualSessionId); the redirect
ActionBumpAfterFallback(r) ==
    LET t == turn[r] IN
    /\ t.pc = "bump3"
    /\ \/ /\ chat_sessions' =
                updateChatSessionTimestamp(chat_sessions, t.sid, t.ts)
          /\ Finish(r, "redirect")
          /\ UNCHANGED faults
       \/ /\ Raise(r)
          /\ UNCHANGED chat_sessions
    /\ UNCHANGED <<users, messages, now, uuid, runs>>
    /\ TurnFrame

----------------------------------------------------------------------------
(* lib/db/chat.server.ts: createMessage as other requests see it *)

PagerFrame ==
    UNCHANGED <<turn, runs, faults, query, login, migration, signins>>

\* the message text of the rows the history specifications insert
SomeText == "What is my balance?"

\* createMessage(data) is called for session s: uuidv7() draws the id, and the
\* INSERT is sent
CreateMessageCall(s) ==
    /\ uuid < MaxMsgs
    /\ Cardinality(pending) < MaxPending
    /\ uuid' = uuid + 1
    /\ pending' = pending \cup
            {newMessageRow(uuid + 1, s, SomeText, "user", NULL, NULL)}
    /\ UNCHANGED <<users, chat_sessions, messages, now, scroll>>
    /\ PagerFrame

\* the INSERT of a createMessage call executes: the row is visible from now on
CreateMessageExec ==
    /\ \E row \in pending :
        /\ messages' = insertMessage(messages, row)
        /\ pending' = pending \ {row}
    /\ UNCHANGED <<users, chat_sessions, now, uuid, scroll>>
    /\ PagerFrame

----------------------------------------------------------------------------
(* routes/chat/$sessionId/page.tsx: loader, called by a browser that scrolls
   back: first without a cursor, then with the oldest id of the page before *)

\* the page size of the history loader
LIMIT == 12

\* a browser that has not asked for the history yet
IdleScroll ==
    [pc |-> "idle", session |-> NoCookie, userId |-> NoId, param |-> NoId,
     before |-> NoId, page |-> <<>>, hasMore |-> FALSE, status |-> 0,
     seen |-> <<>>, fetches |-> 0, first |-> {}, prev |-> {}, shown |-> {},
     cookie |-> NoCookie, newUser |-> NoId, nested |-> FALSE]

\* hasMore = messages.length > 0: a last page that is short tells this from
\* hasMoreOf
hasMoreWhenAny(page) == Len(page) > 0

\* hasMore = messages.length === LIMIT
hasMoreOf(page) == Len(page) = LIMIT

\* the ids of a page, in its order
idsOf(page) == [i \in 1..Len(page) |-> page[i].id]

\* the cursor of the next request: none at first, then the oldest id of the
\* last page (pages are in ascending order)
NextCursor ==
    IF scroll.fetches = 0 THEN NoId ELSE scroll.page[1].id

\* GET /chat/:sessionId?before=: requireSession(request); for "new" the empty
\* history is returned at once, else getChatSession is called
LoaderRequest(cookie, param, before, nested) ==
    LET rs == requireSession(users, cookie, now) IN
    /\ users' = rs.users
    /\ now' = IF rs.created THEN now + 1 ELSE now
    /\ scroll' =
         IF param = NewParam
         THEN [scroll EXCEPT !.pc = "got", !.session = rs.session,
                   !.userId = rs.userId, !.param = param,
                   !.page = <<>>, !.hasMore = FALSE, !.status = 200,
                   !.cookie = cookie, !.nested = nested,
                   !.newUser = IF rs.created THEN rs.userId ELSE NoId]
         ELSE [scroll EXCEPT !.pc = "session", !.session = rs.session,
                   !.userId = rs.userId, !.param = param,
                   !.before = before, !.cookie = cookie, !.nested = nested,
                   !.newUser = IF rs.created THEN rs.userId ELSE NoId]
    /\ UNCHANGED <<chat_sessions, messages, uuid, pending>>
    /\ PagerFrame

\* the loader called for a request to the chat page alone
LoaderCall(cookie, param, before) ==
    LoaderRequest(cookie, param, before, FALSE)

\* the requests of a browser that scrolls back until hasMore is false
LoaderStart ==
    /\ \/ scroll.pc = "idle"
       \/ scroll.pc = "got" /\ scroll.hasMore
    /\ \E cookie \in (IF scroll.pc = "idle" THEN Cookies ELSE {scroll.session}),
          param \in (IF scroll.pc = "idle" THEN SessionParams
                     ELSE {scroll.param}) :
        LoaderCall(cookie, param, NextCursor)

\* chatSession = await getChatSession(sessionId, userId): a 404 when no row is
\* owned by the user, else getChatMessages is called
LoaderSession ==
    /\ scroll.pc = "session"
    /\ \/ /\ getChatSession(chat_sessions, scroll.param, scroll.userId) = NoId
          /\ scroll' = [scroll EXCEPT !.pc = "got", !.status = 404,
                            !.page = <<>>, !.hasMore = FALSE]
       \/ /\ getChatSession(chat_sessions, scroll.param, scroll.userId) # NoId
          /\ scroll' = [scroll EXCEPT !.pc = "messages"]
    /\ UNCHANGED <<users, chat_sessions, messages, now, uuid, pending>>
    /\ PagerFrame

\* messages = await getChatMessages(sessionId, before || undefined, LIMIT);
\* the response {messages, hasMore}, which the browser adds to what it has
LoaderMessages ==
    /\ scroll.pc = "messages"
    /\ LET page == getChatMessages(messages, scroll.param, scroll.before,
                                   LIMIT)
       IN  scroll' = [scroll EXCEPT
                !.pc = "got", !.status = 200, !.page = page,
                !.hasMore = hasMoreOf(page),
                !.seen = scroll.seen \o idsOf(page),
                !.fetches = scroll.fetches + 1,
                !.first = IF scroll.fetches = 0
                          THEN { m.id : m \in messages } ELSE scroll.first,
                !.prev = scroll.shown,
                !.shown = { m.id : m \in messages }]
    /\ UNCHANGED <<users, chat_sessions, messages, now, uuid, pending>>
    /\ PagerFrame

\* the scroll is over: the last response said hasMore = false
ScrollEnded ==
    scroll.pc = "got" /\ ~scroll.hasMore /\ scroll.status = 200

\* two visitors with one chat session each. Session 1 holds the messages with
\* ids up to n, but for at most one (among the MaxOther oldest) that belongs to
\* session 2 and at most one whose INSERT has not executed yet
InitPager ==
    /\ users = [u \in {1, 2} |-> newAnonymousUserRow(newToken(u), 0)]
    /\ chat_sessions = [c \in {1, 2} |-> newChatSessionRow(c, 0)]
    /\ \E n \in 0..MaxMsgs, other \in 0..MaxOther, late \in 0..MaxMsgs :
        LET rowOf(i) == newMessageRow(i, IF i = other THEN 2 ELSE 1,
                                      SomeText, "user", NULL, NULL)
        IN  /\ other <= n /\ late <= n
            /\ other = 0 \/ other # late
            /\ uuid = n
            /\ messages = { rowOf(i) : i \in (1..n) \ {late} }
            /\ pending = { rowOf(i) : i \in (1..n) \cap {late} }
    /\ now = 1
    /\ scroll = IdleScroll
    /\ turn = [r \in Reqs |-> IdleTurn]
    /\ runs = 0
    /\ faults = 0
    /\ query = IdleQuery
    /\ login = IdleLogin
    /\ migration = [m \in Calls |-> IdleMigration]
    /\ signins = [c \in SignIns |-> IdleSignIn]

NextPager ==
    \/ CreateMessageCall(1)
    \/ CreateMessageExec
    \/ LoaderStart
    \/ LoaderSession
    \/ LoaderMessages

SpecPager == InitPager /\ [][NextPager]_vars

----------------------------------------------------------------------------
(* routes/chat/$sessionId/page.tsx: the ChatSession component, which keeps the
   messages it was given in allMessages (scroll.seen) and loads more when the
   top of the list comes into view *)

\* the page is opened: the loader is called without a cursor and its messages
\* become allMessages
PageOpen ==
    /\ scroll.pc = "idle"
    /\ \E cookie \in Cookies, param \in SessionParams :
        LoaderCall(cookie, param, NoId)

\* const oldestMessageId = allMessages[allMessages.length - 1].id
oldestMessageId(allMessages) == allMessages[Len(allMessages)]

\* the IntersectionObserver fires while hasMore is set, the fetcher is idle and
\* allMessages is not empty: loadMoreFetcher.load(`...?before=${oldestMessageId}`);
\* the response is appended to allMessages ([...prev, ...newMessages])
LoadMore ==
    /\ scroll.pc = "got"
    /\ scroll.hasMore
    /\ Len(scroll.seen) > 0
    /\ LoaderCall(scroll.session, scroll.param, oldestMessageId(scroll.seen))

NextPage ==
    \/ PageOpen
    \/ LoadMore
    \/ LoaderSession
    \/ LoaderMessages

SpecPage == InitPager /\ [][NextPage]_vars

----------------------------------------------------------------------------
(* lib/db/chat.server.ts: getChatMessages on any table *)

\* the sessions whose messages the table of one call holds
QuerySessions == {1, 2}

\* a call of getChatMessages(chatSessionId, beforeMessageId, limit)
QueryRun ==
    /\ query.pc = "called"
    /\ query' = [query EXCEPT
            !.pc = "returned",
            !.result = getChatMessages(messages, query.chatSessionId,
                                       query.beforeMessageId, query.limit)]
    /\ UNCHANGED <<users, chat_sessions, messages, now, uuid, turn, runs,
                   faults, scroll, pending, login, migration, signins>>

\* any table of at most MaxQueryIds messages spread over two sessions, and any
\* arguments of the call
InitQuery ==
    /\ users = [u \in {1} |-> newAnonymousUserRow(newToken(u), 0)]
    /\ chat_sessions = [c \in QuerySessions |-> newChatSessionRow(1, 0)]
    /\ \E owner \in [1..MaxQueryIds -> QuerySessions \cup {NoId}] :
        messages = { newMessageRow(i, owner[i], SomeText, "user", NULL, NULL)
                        : i \in { j \in 1..MaxQueryIds : owner[j] # NoId } }
    /\ \E s \in QuerySessions, c \in 0..(MaxQueryIds + 1),
          l \in 1..MaxQueryLimit :
        query = [pc |-> "called", chatSessionId |-> s, beforeMessageId |-> c,
                 limit |-> l, result |-> <<>>]
    /\ uuid = MaxQueryIds
    /\ now = 1
    /\ turn = [r \in Reqs |-> IdleTurn]
    /\ runs = 0
    /\ faults = 0
    /\ scroll = IdleScroll
    /\ pending = {}
    /\ login = IdleLogin
    /\ migration = [m \in Calls |-> IdleMigration]
    /\ signins = [c \in SignIns |-> IdleSignIn]

NextQuery == QueryRun

SpecQuery == InitQuery /\ [][NextQuery]_vars

----------------------------------------------------------------------------
(* lib/session/auth.server.ts: authenticateWithMigration, called for a visitor
   whom WorkOS has signed in, and the history loader before and after it *)

\* what a sign-in leaves alone
LoginFrame ==
    UNCHANGED <<messages, uuid, turn, runs, query, scroll, pending, migration,
                signins>>

\* the WorkOS identity of the visitor who signs in
WorkosUserId == "user_01"
WorkosEmail == "visitor@example.com"

\* a statement of the sign-in fails outside the try block: the call rejects
LoginRaise ==
    /\ faults < MaxFaults
    /\ faults' = faults + 1
    /\ login' = [login EXCEPT !.pc = "done", !.raised = TRUE]

\* the call returns: the cookie carries the authenticated user's id only
LoginReturn(l, how) ==
    login' = [l EXCEPT
        !.pc = "done", !.outcome = how,
        !.result = [session |-> authenticatedCookie(l.cookie, l.authId),
                    user |-> l.authId, isAuthenticated |-> TRUE]]

\* the authenticated user is known: the anonymous user of the cookie, if it is
\* another user, is looked up next
AfterWorkOSUser(l) ==
    IF l.currentUserId # NoId /\ l.currentUserId # l.authId
    THEN login' = [l EXCEPT !.pc = "selectAnon"]
    ELSE LoginReturn(l, "skipped")

\* authenticateWithMigration(request, workosUserId, email): the cookie is read
\* and getOrCreateWorkOSUser calls getUserByWorkOSId
LoginStart ==
    /\ login.pc = "idle"
    /\ login' = [login EXCEPT
            !.pc = "byWorkos",
            !.workosUserId = WorkosUserId, !.email = WorkosEmail,
            !.currentUserId = login.cookie.userId,
            !.users0 = users, !.cs0 = chat_sessions, !.msgs0 = messages,
            !.view0 = IF scroll.pc = "got"
                      THEN [param |-> scroll.param, before |-> scroll.before,
                            status |-> scroll.status, page |-> scroll.page]
                      ELSE NoView]
    /\ UNCHANGED <<users, chat_sessions, now, faults>>
    /\ LoginFrame

\* user = await getUserByWorkOSId(workosUserId): when there is none, the
\* values of the row to insert are made (createId(), new Date())
LoginGetUser ==
    /\ login.pc = "byWorkos"
    /\ \/ /\ getUserByWorkOSId(users, login.workosUserId) # NoId
          /\ AfterWorkOSUser([login EXCEPT
                !.authId = getUserByWorkOSId(users, login.workosUserId)])
          /\ UNCHANGED <<now, faults>>
       \/ /\ getUserByWorkOSId(users, login.workosUserId) = NoId
          /\ login' = [login EXCEPT !.pc = "insertUser",
                            !.newId = createId(users), !.ts = now]
          /\ now' = now + 1
          /\ UNCHANGED faults
       \/ /\ LoginRaise
          /\ UNCHANGED now
    /\ UNCHANGED <<users, chat_sessions>>
    /\ LoginFrame

\* the INSERT of the authenticated user executes
LoginCreateUser ==
    /\ login.pc = "insertUser"
    /\ \/ /\ users' = [u \in DOMAIN users \cup {login.newId} |->
                        IF u = login.newId
                        THEN newWorkOSUserRow(login.workosUserId, login.email,
                                              login.ts)
                        ELSE users[u]]
          /\ AfterWorkOSUser([login EXCEPT !.authId = login.newId])
          /\ UNCHANGED faults
       \/ /\ LoginRaise
          /\ UNCHANGED users
    /\ UNCHANGED <<chat_sessions, now>>
    /\ LoginFrame

\* anonymousUser = await db.selectFrom("users")...: when the cookie's user is
\* an anonymous one, migrateAnonymousUserToAuthenticated begins its transaction
LoginSelectAnonymous ==
    /\ login.pc = "selectAnon"
    /\ \/ /\ selectAnonymousUser(users, login.currentUserId) # NoId
          /\ login' = [login EXCEPT
                !.pc = "trxSessions", !.trx = NoTrx,
                !.owned0 = { s \in DOMAIN chat_sessions :
                              chat_sessions[s].user_id = login.currentUserId },
                !.anon0 = users[login.currentUserId]]
          /\ UNCHANGED faults
       \/ /\ selectAnonymousUser(users, login.currentUserId) = NoId
          /\ LoginReturn(login, "skipped")
          /\ UNCHANGED faults
       \/ LoginRaise
    /\ UNCHANGED <<users, chat_sessions, now>>
    /\ LoginFrame

\* a statement of the transaction, or its COMMIT, fails: the transaction is
\* rolled back, the catch block logs the error and the sign-in goes on
MigrationFailed ==
    /\ faults < MaxFaults
    /\ faults' = faults + 1
    /\ chat_sessions' = sessionsAfter(chat_sessions, rolledBack(login.trx),
                                      login.authId)
    /\ users' = usersAfter(users, rolledBack(login.trx), login.currentUserId,
                           login.ts)
    /\ LoginReturn([login EXCEPT !.trx = rolledBack(login.trx),
                                 !.failedAt = login.pc], "failed")

\* trx: UPDATE chat_sessions SET user_id = authenticated WHERE user_id =
\* anonymous; then the values of the second UPDATE are made (new Date())
MigrateSessions ==
    /\ login.pc = "trxSessions"
    /\ \/ /\ login' = [login EXCEPT
                !.pc = "trxUser",
                !.trx.sessions =
                    sessionsOwnedBy(chat_sessions, login.currentUserId),
                !.ts = now]
          /\ now' = now + 1
          /\ UNCHANGED <<users, chat_sessions, faults>>
       \/ /\ MigrationFailed
          /\ UNCHANGED now
    /\ LoginFrame

\* trx: UPDATE users SET updated_at WHERE id = anonymous
MigrateUser ==
    /\ login.pc = "trxUser"
    /\ \/ /\ login' = [login EXCEPT !.pc = "trxCommit", !.trx.touched = TRUE]
          /\ UNCHANGED <<users, chat_sessions, faults>>
       \/ MigrationFailed
    /\ UNCHANGED now
    /\ LoginFrame

\* COMMIT: the writes of the transaction are applied together
MigrateCommit ==
    /\ login.pc = "trxCommit"
    /\ \/ /\ chat_sessions' = sessionsAfter(chat_sessions, login.trx,
                                            login.authId)
          /\ users' = usersAfter(users, login.trx, login.currentUserId,
                                 login.ts)
          /\ LoginReturn(login, "committed")
          /\ UNCHANGED faults
       \/ MigrationFailed
    /\ UNCHANGED now
    /\ LoginFrame

\* the cookie the browser holds: the one of the sign-in's response once the
\* call has returned
BrowserCookie ==
    IF login.loggedOut THEN NoCookie
    ELSE IF login.pc = "done" /\ ~login.raised THEN login.result.session
    ELSE login.cookie

\* the cookies in the authenticated state that have been given to the browser:
\* the one it held from an earlier sign-in and the one of this sign-in
AuthenticatedCookies ==
    { c \in {login.cookie} : c.userId # NoId /\ c.sessionId = NoId }
    \cup (IF login.pc = "done" /\ ~login.raised
          THEN {login.result.session} ELSE {})

\* GET /auth/logout (routes/auth.logout.ts): destroySession tells the browser
\* to drop the cookie; nothing changes in the store
Logout ==
    /\ login.pc = "done"
    /\ ~login.raised
    /\ ~login.loggedOut
    /\ login' = [login EXCEPT !.loggedOut = TRUE]
    /\ UNCHANGED <<users, chat_sessions, now, faults>>
    /\ LoginFrame

\* a request that presents a cookie of the authenticated state again, also
\* after the browser was told to drop it
ReplayStart ==
    /\ scroll.pc \in {"idle", "got"}
    /\ scroll.fetches < MaxViews
    /\ \E cookie \in AuthenticatedCookies, param \in DOMAIN chat_sessions :
        LoaderCall(cookie, param, NoId)

\* GET /chat/:sessionId?before=: the browser asks for the history of a session
ViewStart ==
    /\ scroll.pc \in {"idle", "got"}
    /\ scroll.fetches < MaxViews
    /\ BrowserCookie # NoCookie
    /\ \E param \in DOMAIN chat_sessions, before \in {NoId, uuid} :
        LoaderCall(BrowserCookie, param, before)

\* GET /chat/:sessionId of a visitor whom WorkOS has signed in: the layout's
\* loader (routes/chat-layout.tsx) calls authenticateWithMigration, and the
\* page's loader is called for the same request, with the cookie the request
\* carries
NestedLoaderStart ==
    /\ login.pc # "idle"
    /\ login.cookie # NoCookie
    /\ scroll.pc \in {"idle", "got"}
    /\ ~scroll.nested
    /\ scroll.fetches < MaxViews
    /\ \E param \in DOMAIN chat_sessions :
        LoaderRequest(login.cookie, param, NoId, TRUE)

\* the visitor (user 1, anonymous) owns up to MaxAnonSessions chat sessions and
\* another visitor (user 2) owns one; they hold up to MaxAuthMsgs messages. The
\* visitor may have signed in before (user 3), and the browser holds the
\* anonymous cookie, the cookie of that earlier sign-in, or none
InitAuth ==
    /\ \E known \in BOOLEAN :
        /\ users = [u \in (IF known THEN 1..3 ELSE 1..2) |->
                      IF u = 3
                      THEN newWorkOSUserRow(WorkosUserId, WorkosEmail, 0)
                      ELSE newAnonymousUserRow(newToken(u), 0)]
        /\ \E cookie \in {NoCookie, [userId |-> 1, sessionId |-> newToken(1)]}
                         \cup (IF known
                               THEN {[userId |-> 3, sessionId |-> NoId]}
                               ELSE {}) :
            login = [IdleLogin EXCEPT !.cookie = cookie]
    /\ migration = [m \in Calls |-> IdleMigration]
    /\ signins = [c \in SignIns |-> IdleSignIn]
    /\ \E k \in 0..MaxAnonSessions :
        chat_sessions = [c \in 1..(k + 1) |->
                            newChatSessionRow(IF c = k + 1 THEN 2 ELSE 1, 0)]
    /\ \E n \in 0..MaxAuthMsgs :
        /\ uuid = n
        /\ messages = { newMessageRow(i, 1 + (i % Cardinality(DOMAIN chat_sessions)),
                                      SomeText,
                                      IF i % 2 = 1 THEN "user" ELSE "assistant",
                                      NULL, NULL) : i \in 1..n }
    /\ now = 1
    /\ turn = [r \in Reqs |-> IdleTurn]
    /\ runs = 0
    /\ faults = 0
    /\ query = IdleQuery
    /\ scroll = IdleScroll
    /\ pending = {}

NextAuth ==
    \/ LoginStart
    \/ LoginGetUser
    \/ LoginCreateUser
    \/ LoginSelectAnonymous
    \/ MigrateSessions
    \/ MigrateUser
    \/ MigrateCommit
    \/ Logout
    \/ ViewStart
    \/ ReplayStart
    \/ NestedLoaderStart
    \/ LoaderSession
    \/ LoaderMessages

SpecAuth == InitAuth /\ [][NextAuth]_vars

----------------------------------------------------------------------------
(* lib/session/auth.server.ts: migrateAnonymousUserToAuthenticated(A, U) called
   more than once, one call after the other or side by side. The store is
   PostgreSQL (lib/db.server.ts) at its default isolation level: an UPDATE
   waits while another transaction holds a row it matches, and matches the
   rows again once that transaction has ended *)

\* A, the anonymous user, and U, the authenticated user, of the calls
MigratedFrom == 1
MigratedTo == 3

\* chat sessions that may be created while the calls run
MaxCreates == 1

\* what a call of the migration leaves alone
MigrationFrame ==
    UNCHANGED <<messages, uuid, turn, runs, query, scroll, pending, login,
                signins>>

\* the calls whose transaction is open
Running == { m \in Calls : migration[m].pc \in {"trxSessions", "trxUser",
                                                "trxCommit"} }

\* the chat sessions, and the users, whose row a transaction other than that
\* of m has written and holds until it ends
SessionsHeld(m) ==
    UNION { migration[o].trx.sessions : o \in Running \ {m} }

UserHeld(m) == \E o \in Running \ {m} : migration[o].trx.touched

\* migrateAnonymousUserToAuthenticated(A, U): db.transaction().execute begins
MigrationBegin(m) ==
    /\ migration[m].pc = "idle"
    /\ migration' = [migration EXCEPT
            ![m] = [IdleMigration EXCEPT
                        !.pc = "trxSessions", !.cs0 = chat_sessions,
                        !.overlapped = Running # {}]]
    /\ UNCHANGED <<users, chat_sessions, now, faults>>
    /\ MigrationFrame

\* a statement of the transaction of m, or its COMMIT, fails: the transaction
\* is rolled back and the call rejects
MigrationRollback(m) ==
    /\ faults < MaxFaults
    /\ faults' = faults + 1
    /\ migration' = [migration EXCEPT
            ![m].pc = "done", ![m].outcome = "failed",
            ![m].trx = rolledBack(migration[m].trx)]
    /\ UNCHANGED <<users, chat_sessions>>

\* trx: UPDATE chat_sessions SET user_id = U WHERE user_id = A, once no other
\* transaction holds a row it matches; then new Date() for the second UPDATE
MigrationSessions(m) ==
    /\ migration[m].pc = "trxSessions"
    /\ \/ /\ sessionsOwnedBy(chat_sessions, MigratedFrom)
                \cap SessionsHeld(m) = {}
          /\ migration' = [migration EXCEPT
                ![m].pc = "trxUser",
                ![m].trx.sessions =
                    sessionsOwnedBy(chat_sessions, MigratedFrom),
                ![m].ts = now]
          /\ now' = now + 1
          /\ UNCHANGED <<users, chat_sessions, faults>>
       \/ /\ MigrationRollback(m)
          /\ UNCHANGED now
    /\ MigrationFrame

\* trx: UPDATE users SET updated_at WHERE id = A, once no other transaction
\* holds that row
MigrationUser(m) ==
    /\ migration[m].pc = "trxUser"
    /\ \/ /\ ~UserHeld(m)
          /\ migration' = [migration EXCEPT
                ![m].pc = "trxCommit", ![m].trx.touched = TRUE]
          /\ UNCHANGED <<users, chat_sessions, faults>>
       \/ MigrationRollback(m)
    /\ UNCHANGED now
    /\ MigrationFrame

\* COMMIT: the writes of the transaction are applied together and the call
\* returns
MigrationCommit(m) ==
    /\ migration[m].pc = "trxCommit"
    /\ \/ /\ chat_sessions' = sessionsAfter(chat_sessions, migration[m].trx,
                                            MigratedTo)
          /\ users' = usersAfter(users, migration[m].trx, MigratedFrom,
                                 migration[m].ts)
          /\ migration' = [migration EXCEPT
                ![m].pc = "done", ![m].outcome = "committed"]
          /\ UNCHANGED faults
       \/ MigrationRollback(m)
    /\ UNCHANGED now
    /\ MigrationFrame

\* createChatSession(userId) of a request of any user, while the calls run
SessionCreated ==
    /\ Cardinality({ c \in DOMAIN chat_sessions :
                        chat_sessions[c].updated_at # 0 }) < MaxCreates
    /\ \E userId \in DOMAIN users :
        chat_sessions' =
            [c \in DOMAIN chat_sessions \cup {createId(chat_sessions)} |->
                IF c \in DOMAIN chat_sessions THEN chat_sessions[c]
                ELSE newChatSessionRow(userId, now)]
    /\ now' = now + 1
    /\ UNCHANGED <<users, faults, migration>>
    /\ MigrationFrame

\* A (user 1, anonymous) owns up to MaxAnonSessions chat sessions, another
\* visitor (user 2) owns one, and U (user 3) may own one from before
InitMigration ==
    /\ users = [u \in 1..3 |->
                  IF u = MigratedTo
                  THEN newWorkOSUserRow(WorkosUserId, WorkosEmail, 0)
                  ELSE newAnonymousUserRow(newToken(u), 0)]
    /\ \E k \in 0..MaxAnonSessions, own \in 0..1 :
        chat_sessions = [c \in 1..(k + 1 + own) |->
                            newChatSessionRow(IF c <= k THEN MigratedFrom
                                              ELSE IF c = k + 1 THEN 2
                                              ELSE MigratedTo, 0)]
    /\ messages = {}
    /\ uuid = 0
    /\ now = 1
    /\ turn = [r \in Reqs |-> IdleTurn]
    /\ runs = 0
    /\ faults = 0
    /\ query = IdleQuery
    /\ scroll = IdleScroll
    /\ pending = {}
    /\ login = IdleLogin
    /\ migration = [m \in Calls |-> IdleMigration]
    /\ signins = [c \in SignIns |-> IdleSignIn]

NextMigration ==
    \/ SessionCreated
    \/ \E m \in Calls :
        \/ MigrationBegin(m)
        \/ MigrationSessions(m)
        \/ MigrationUser(m)
        \/ MigrationCommit(m)

SpecMigration == InitMigration /\ [][NextMigration]_vars

----------------------------------------------------------------------------
(* lib/session/auth.server.ts: authenticateWithMigration called twice for one
   WorkOS identity, side by side (two tabs, or a request sent twice). The
   store answers every statement; it rejects an INSERT that breaks a unique
   index (users_workos_id_key, users_email_key of the schema), and the
   migration's transaction may fail as a whole *)

\* what a call of the sign-in leaves alone
SignInFrame ==
    UNCHANGED <<messages, turn, runs, query, scroll, pending, login, migration>>

\* the rows of users with the WorkOS id or the email: the unique indexes allow
\* one
usersWithIdentity(us, workosUserId, email) ==
    { u \in DOMAIN us :
        us[u].workos_id = workosUserId \/ us[u].email = email }

\* the call returns: session.set("userId"), session.unset("sessionId")
SignInReturn(c, r) ==
    signins' = [signins EXCEPT ![c] =
        [r EXCEPT
            !.pc = "done", !.outcome = "returned",
            !.result = [session |-> authenticatedCookie(r.cookie, r.authId),
                        user |-> r.authId, isAuthenticated |-> TRUE]]]

\* authenticatedUser is known: the anonymous user of the cookie, if it is
\* another user, is looked up next
SignInAfterUser(c, r) ==
    IF r.currentUserId # NoId /\ r.currentUserId # r.authId
    THEN signins' = [signins EXCEPT ![c] = [r EXCEPT !.pc = "selectAnon"]]
    ELSE SignInReturn(c, r)

\* authenticateWithMigration(request, workosUserId, email): the cookie is read
\* and getOrCreateWorkOSUser calls getUserByWorkOSId
SignInStart(c) ==
    /\ signins[c].pc = "idle"
    /\ signins' = [signins EXCEPT
            ![c].pc = "byWorkos",
            ![c].currentUserId = signins[c].cookie.userId]
    /\ UNCHANGED <<users, chat_sessions, now, uuid, faults>>
    /\ SignInFrame

\* user = await getUserByWorkOSId(workosUserId): when there is none, the
\* values of the row to insert are made (createId(), new Date())
SignInGetUser(c) ==
    /\ signins[c].pc = "byWorkos"
    /\ IF getUserByWorkOSId(users, WorkosUserId) # NoId
       THEN /\ SignInAfterUser(c, [signins[c] EXCEPT
                    !.authId = getUserByWorkOSId(users, WorkosUserId),
                    !.found = TRUE])
            /\ UNCHANGED <<now, uuid>>
       ELSE /\ signins' = [signins EXCEPT
                    ![c].pc = "insertUser", ![c].newId = uuid + 1,
                    ![c].ts = now]
            /\ uuid' = uuid + 1
            /\ now' = now + 1
    /\ UNCHANGED <<users, chat_sessions, faults>>
    /\ SignInFrame

\* the INSERT of the authenticated user executes; executeTakeFirstOrThrow
\* rejects when a row with the WorkOS id or the email is there by now, and the
\* call rejects with it
SignInCreateUser(c) ==
    /\ signins[c].pc = "insertUser"
    /\ IF usersWithIdentity(users, WorkosUserId, WorkosEmail) = {}
       THEN /\ users' = [u \in DOMAIN users \cup {signins[c].newId} |->
                          IF u = signins[c].newId
                          THEN newWorkOSUserRow(WorkosUserId, WorkosEmail,
                                                signins[c].ts)
                          ELSE users[u]]
            /\ SignInAfterUser(c, [signins[c] EXCEPT
                    !.authId = signins[c].newId])
       ELSE /\ signins' = [signins EXCEPT
                    ![c].pc = "done", ![c].outcome = "rejected"]
            /\ UNCHANGED users
    /\ UNCHANGED <<chat_sessions, now, uuid, faults>>
    /\ SignInFrame

\* anonymousUser = await db.selectFrom("users")...: when the cookie's user is
\* an anonymous one, migrateAnonymousUserToAuthenticated is called, which
\* reads the clock for its second UPDATE
SignInSelectAnonymous(c) ==
    /\ signins[c].pc = "selectAnon"
    /\ IF selectAnonymousUser(users, signins[c].currentUserId) # NoId
       THEN /\ signins' = [signins EXCEPT ![c].pc = "migrate", ![c].ts = now]
            /\ now' = now + 1
       ELSE /\ SignInReturn(c, signins[c])
            /\ UNCHANGED now
    /\ UNCHANGED <<users, chat_sessions, uuid, faults>>
    /\ SignInFrame

\* await migrateAnonymousUserToAuthenticated(currentUserId, authenticatedUser.id):
\* the transaction commits with both UPDATEs, or it fails, is rolled back and
\* the catch block logs it; the call returns either way
SignInMigrate(c) ==
    LET r == signins[c] IN
    /\ r.pc = "migrate"
    /\ \/ /\ chat_sessions' =
                reassignSessions(chat_sessions,
                    sessionsOwnedBy(chat_sessions, r.currentUserId), r.authId)
          /\ users' = touchUser(users, r.currentUserId, r.ts)
          /\ SignInReturn(c, [r EXCEPT !.migrated = "committed"])
          /\ UNCHANGED faults
       \/ /\ faults < MaxFaults
          /\ faults' = faults + 1
          /\ SignInReturn(c, [r EXCEPT !.migrated = "failed"])
          /\ UNCHANGED <<users, chat_sessions>>
    /\ UNCHANGED <<now, uuid>>
    /\ SignInFrame

\* visitors without a cookie that may arrive while the sign-ins run
MaxVisitors == 1

\* a request that carries no cookie: requireSession inserts a row for a new
\* anonymous user (createId() for its token and its id, new Date())
SignInVisit ==
    /\ Cardinality({ u \in DOMAIN users :
                        u > 2 /\ users[u].is_anonymous }) < MaxVisitors
    /\ users' = [u \in DOMAIN users \cup {uuid + 1} |->
                    IF u = uuid + 1
                    THEN newAnonymousUserRow(newToken(uuid + 1), now)
                    ELSE users[u]]
    /\ uuid' = uuid + 1
    /\ now' = now + 1
    /\ UNCHANGED <<chat_sessions, faults, signins>>
    /\ SignInFrame

\* two anonymous visitors (users 1 and 2) own chat sessions, no row carries the
\* WorkOS identity yet, and each call comes with the cookie of one of them or
\* with none
InitSignIn ==
    /\ users = [u \in 1..2 |-> newAnonymousUserRow(newToken(u), 0)]
    /\ \E k \in 0..MaxAnonSessions :
        chat_sessions = [s \in 1..(k + 1) |->
                            newChatSessionRow(IF s = k + 1 THEN 2 ELSE 1, 0)]
    /\ \E f \in [SignIns ->
                    {NoCookie} \cup
                    { [userId |-> u, sessionId |-> newToken(u)] :
                        u \in 1..2 }] :
        signins = [c \in SignIns |-> [IdleSignIn EXCEPT !.cookie = f[c]]]
    /\ messages = {}
    /\ uuid = 2
    /\ now = 1
    /\ turn = [r \in Reqs |-> IdleTurn]
    /\ runs = 0
    /\ faults = 0
    /\ query = IdleQuery
    /\ scroll = IdleScroll
    /\ pending = {}
    /\ login = IdleLogin
    /\ migration = [m \in Calls |-> IdleMigration]

NextSignIn ==
    \/ SignInVisit
    \/ \E c \in SignIns :
        \/ SignInStart(c)
        \/ SignInGetUser(c)
        \/ SignInCreateUser(c)
        \/ SignInSelectAnonymous(c)
        \/ SignInMigrate(c)

SpecSignIn == InitSignIn /\ [][NextSignIn]_vars

----------------------------------------------------------------------------
(* The chat route asked for sessions of several visitors: in one behaviour
   either history loads or invocations of the action *)

\* invocations of the action in a behaviour of these requests
MaxAccessRuns == 1

\* users the store may hold
MaxUsers == 4

\* GET /chat/:sessionId with any cookie, for any session
AccessLoaderStart ==
    /\ \A r \in Reqs : turn[r].pc = "idle"
    /\ scroll.pc \in {"idle", "got"}
    /\ scroll.fetches < MaxViews
    /\ Cardinality(DOMAIN users) < MaxUsers
    /\ \E cookie \in Cookies, param \in SessionParams,
          before \in {NoId, uuid} :
        LoaderCall(cookie, param, before)

\* POST /chat/:sessionId with any cookie, for any session
AccessActionStart(r) ==
    /\ scroll.pc = "idle"
    /\ runs < MaxAccessRuns
    /\ ActionStart(r)

\* two visitors with a chat session each: session 1 (messages 3 and 4) is
\* owned by user 1 and session 2 (message 5) by user 2
InitAccess ==
    /\ users = [u \in {1, 2} |-> newAnonymousUserRow(newToken(u), 0)]
    /\ chat_sessions = [c \in {1, 2} |-> newChatSessionRow(c, 0)]
    /\ messages = { newMessageRow(3, 1, SomeText, "user", NULL, NULL),
                    newMessageRow(4, 1, FALLBACK, "assistant", NULL, NULL),
                    newMessageRow(5, 2, SomeText, "user", NULL, NULL) }
    /\ uuid = 5
    /\ now = 1
    /\ turn = [r \in Reqs |-> IdleTurn]
    /\ runs = 0
    /\ faults = 0
    /\ query = IdleQuery
    /\ scroll = IdleScroll
    /\ pending = {}
    /\ login = IdleLogin
    /\ migration = [m \in Calls |-> IdleMigration]
    /\ signins = [c \in SignIns |-> IdleSignIn]

NextAccess ==
    \/ AccessLoaderStart
    \/ LoaderSession
    \/ LoaderMessages
    \/ \E r \in Solo :
        \/ AccessActionStart(r)
        \/ ActionSession(r)
        \/ ActionNewChat(r)
        \/ ActionUserMessage(r)
        \/ ActionBumpAfterUser(r)
        \/ ActionHistory(r)
        \/ ActionUpstream(r)
        \/ ActionAssistantMessage(r)
        \/ ActionBumpAfterAssistant(r)
        \/ ActionTitle(r)
        \/ ActionFallbackMessage(r)
        \/ ActionBumpAfterFallback(r)

SpecAccess == InitAccess /\ [][NextAccess]_vars

----------------------------------------------------------------------------
(* The chat route, one request of a visitor at a time *)

\* a visitor has been given an anonymous identity and has opened one chat
\* session, which has no title and no message yet
Init ==
    /\ users = (1 :> newAnonymousUserRow(newToken(1), 0))
    /\ chat_sessions = (1 :> newChatSessionRow(1, 0))
    /\ messages = {}
    /\ now = 1
    /\ uuid = 1
    /\ turn = [r \in Reqs |-> IdleTurn]
    /\ runs = 0
    /\ faults = 0
    /\ query = IdleQuery
    /\ scroll = IdleScroll
    /\ pending = {}
    /\ login = IdleLogin
    /\ migration = [m \in Calls |-> IdleMigration]
    /\ signins = [c \in SignIns |-> IdleSignIn]

Next ==
    \E r \in Solo :
        \/ ActionStart(r)
        \/ ActionSession(r)
        \/ ActionNewChat(r)
        \/ ActionUserMessage(r)
        \/ ActionBumpAfterUser(r)
        \/ ActionHistory(r)
        \/ ActionUpstream(r)
        \/ ActionAssistantMessage(r)
        \/ ActionBumpAfterAssistant(r)
        \/ ActionTitle(r)
        \/ ActionFallbackMessage(r)
        \/ ActionBumpAfterFallback(r)

Spec == Init /\ [][Next]_vars

----------------------------------------------------------------------------
(* The chat route, two send-message turns of one visitor on one session that
   may overlap (two tabs, or a form sent twice) *)

\* POST /chat/1 with intent send-message and the visitor's cookie
RaceStart(r) ==
    /\ turn[r].pc = "idle"
    /\ ActionStart(r)
    /\ turn'[r].cookie = [userId |-> 1, sessionId |-> newToken(1)]
    /\ turn'[r].param = 1
    /\ turn'[r].intent = "send-message"
    /\ turn'[r].message = SomeText

NextRace ==
    \E r \in Reqs :
        \/ RaceStart(r)
        \/ ActionSession(r)
        \/ ActionUserMessage(r)
        \/ ActionBumpAfterUser(r)
        \/ ActionHistory(r)
        \/ ActionUpstream(r)
        \/ ActionAssistantMessage(r)
        \/ ActionBumpAfterAssistant(r)
        \/ ActionTitle(r)
        \/ ActionFallbackMessage(r)
        \/ ActionBumpAfterFallback(r)

SpecRace == Init /\ [][NextRace]_vars

----------------------------------------------------------------------------
(* Properties of one send-message turn *)

\* invocation r was a send-message turn that returned its redirect
TurnReturned(r) ==
    /\ turn[r].pc = "done"
    /\ turn[r].intent = "send-message"
    /\ turn[r].result = "redirect"

\* the assistant rows invocation r inserted
AssistantRows(r) ==
    { m \in messages : m.id \in turn[r].asst }

\* the completion call of invocation r failed: it rejected or brought no body
CompletionFailed(r) ==
    /\ turn[r].chat.status # "none"
    /\ \/ turn[r].chat.status = "rejected"
       \/ turn[r].chat.data = NoChatData

\* the completion call of invocation r brought a body back
CompletionSucceeded(r) ==
    /\ turn[r].chat.status = "fulfilled"
    /\ turn[r].chat.data # NoChatData

\* C1: every send-message invocation that gets past validation and returns has
\* appended exactly one assistant message to its session.
ExactlyOneAssistantPerTurn ==
    \A r \in Reqs :
        TurnReturned(r) =>
            /\ Cardinality(turn[r].asst) = 1
            /\ \A m \in AssistantRows(r) :
                  m.role = "assistant" /\ m.chat_session_id = turn[r].sid

\* C2: on a session without a title, when the completion call succeeds and the
\* title call is rejected, the one assistant message holds the completion's
\* reply, reasoning and serialized sources, and the title stays null.
ReplyKeptWhenTitleFails ==
    \A r \in Reqs :
        ( /\ TurnReturned(r)
          /\ ~turn[r].dbError
          /\ turn[r].title0 = NULL
          /\ CompletionSucceeded(r)
          /\ turn[r].title.status = "rejected" )
        => /\ Cardinality(AssistantRows(r)) = 1
           /\ \A m \in AssistantRows(r) :
                 /\ m.content = turn[r].chat.data.response
                 /\ m.reasoning = turn[r].chat.data.reasoning
                 /\ m.context_used = contextsJson(turn[r].chat.data)
           /\ chat_sessions[turn[r].sid].title = NULL

FirstTurnWentWell(r) ==
    /\ TurnReturned(r)
    /\ ~turn[r].dbError
    /\ turn[r].title0 = NULL
    /\ Len(turn[r].history) = 1
    /\ CompletionSucceeded(r)
    /\ turn[r].title.status = "fulfilled"
    /\ turn[r].title.data # NoTitleData

----------------------------------------------------------------------------
(* Properties of the history pager *)

\* the rows of session s with an id below cursor c (all of them without one)
OlderRows(msgs, s, c) ==
    { m \in msgs : m.chat_session_id = s /\ (c # NoId => m.id < c) }

\* the rows of a page, as a set
RowsOf(page) == { page[i] : i \in 1..Len(page) }

\* a sequence of rows is in strictly ascending order of id
Ascending(page) ==
    \A i, j \in 1..Len(page) : i < j => page[i].id < page[j].id

\* C4: getChatMessages(sessionId, c, limit) returns, in ascending id order,
\* exactly the min(limit, k) rows with the largest ids among the k rows of the
\* session whose id is below c (among all of them without a cursor), and no row
\* of another session.
PageIsNewestBelowCursor ==
    query.pc = "returned" =>
        LET older == OlderRows(messages, query.chatSessionId,
                               query.beforeMessageId)
            got == RowsOf(query.result)
        IN  /\ Len(query.result) = Min(query.limit, Cardinality(older))
            /\ Ascending(query.result)
            /\ got \subseteq older
            /\ \A m \in older \ got : \A g \in got : m.id < g.id

\* C4's case: a call with a cursor, on a session with more rows below the
\* cursor than the limit, a row above it and rows of the other session
PageCutByLimitAndCursor ==
    /\ query.pc = "returned"
    /\ query.beforeMessageId # NoId
    /\ Cardinality(OlderRows(messages, query.chatSessionId,
                             query.beforeMessageId)) > query.limit
    /\ \E m \in messages : /\ m.chat_session_id = query.chatSessionId
                           /\ m.id > query.beforeMessageId
    /\ \E m \in messages : /\ m.chat_session_id # query.chatSessionId
                           /\ m.id < query.beforeMessageId

\* the loader has answered with a page of history
PageReturned ==
    scroll.pc = "got" /\ scroll.status = 200 /\ scroll.param # NewParam

\* C5: hasMore is true exactly when the page holds LIMIT messages; a request
\* whose cursor has no older message left below it is answered, without an
\* error, by an empty page with hasMore = false.
HasMoreIffFullPage ==
    PageReturned =>
        /\ scroll.hasMore <=> (Len(scroll.page) = LIMIT)
        /\ ( /\ scroll.before # NoId
             /\ OlderRows({ m \in messages : m.id \in scroll.shown },
                          scroll.param, scroll.before) = {} )
           => (scroll.page = <<>> /\ ~scroll.hasMore /\ ScrollEnded)

\* C5's case: the page before held exactly the LIMIT older messages that were
\* left, so hasMore was true, and the request that followed got nothing
EmptyPageAfterFullPage ==
    /\ PageReturned
    /\ scroll.fetches >= 2
    /\ scroll.page = <<>>
    /\ Len(scroll.seen) = (scroll.fetches - 1) * LIMIT

\* the ids of the messages of the scrolled session
SessionIds == { m.id : m \in OlderRows(messages, scroll.param, NoId) }

\* C6: without writes since the first page, the scroll ends after at most
\* n / LIMIT + 1 requests for a session of n messages, and when it has ended
\* every message of the session has been returned exactly once.
ScrollVisitsEachOnce ==
    (PageReturned /\ { m.id : m \in messages } = scroll.first) =>
        /\ (scroll.fetches - 1) * LIMIT <= Cardinality(SessionIds)
        /\ \A i, j \in 1..Len(scroll.seen) :
              i # j => scroll.seen[i] # scroll.seen[j]
        /\ { scroll.seen[i] : i \in 1..Len(scroll.seen) } \subseteq SessionIds
        /\ ScrollEnded =>
              { scroll.seen[i] : i \in 1..Len(scroll.seen) } = SessionIds

\* C6's case: a scroll over three pages has ended with no write in between
ScrollOfThreePagesEnded ==
    /\ ScrollEnded
    /\ scroll.fetches = 3
    /\ { m.id : m \in messages } = scroll.first
    /\ Len(scroll.seen) > 2 * LIMIT

\* C7: a page fetched with a cursor is the page the same request would have
\* got from the table as it was at the request before it: messages inserted in
\* between do not change it.
PageUnchangedByAppends ==
    (PageReturned /\ scroll.fetches >= 2) =>
        scroll.page =
            getChatMessages({ m \in messages : m.id \in scroll.prev },
                            scroll.param, scroll.before, LIMIT)

----------------------------------------------------------------------------
(* Properties of the sign-in *)

\* the call of authenticateWithMigration has returned after a migration that
\* ended as how ("committed" or "failed")
MigrationEnded(how) ==
    login.pc = "done" /\ ~login.raised /\ login.outcome = how

\* C8: migrateAnonymousUserToAuthenticated is all or nothing: after a call
\* that succeeded every chat session the anonymous user owned is owned by the
\* authenticated user and the anonymous user's updated_at has been touched;
\* after a call that failed, at whatever step, no chat session has changed
\* owner and the anonymous user's row is as it was.
MigrationAllOrNothing ==
    /\ MigrationEnded("committed") =>
          /\ \A s \in DOMAIN login.cs0 :
                chat_sessions[s].user_id =
                    IF s \in login.owned0 THEN login.authId
                    ELSE login.cs0[s].user_id
          /\ users[login.currentUserId] =
                [login.anon0 EXCEPT !.updated_at = login.ts]
          /\ login.ts > login.anon0.updated_at
    /\ MigrationEnded("failed") =>
          /\ chat_sessions = login.cs0
          /\ users[login.currentUserId] = login.anon0

\* C8's case: the COMMIT of a migration of two chat sessions has failed, after
\* both UPDATEs had run
MigrationFailedAtCommit ==
    /\ MigrationEnded("failed")
    /\ login.failedAt = "trxCommit"
    /\ Cardinality(login.owned0) = 2

\* the history loader has answered the authenticated user the request that it
\* had answered the anonymous user before the sign-in
SameViewAfterSignIn ==
    /\ scroll.pc = "got"
    /\ scroll.userId = login.authId
    /\ login.view0.status = 200
    /\ login.view0.param = scroll.param
    /\ login.view0.before = scroll.before
    /\ scroll.param \in login.owned0

\* C9: after a migration that succeeded, the history loader returns to the
\* authenticated user, for a session the anonymous user owned, the messages it
\* returned to the anonymous user before, with the same fields and in the same
\* order; the migration has written no message row and no session title.
HistoryKeptByMigration ==
    MigrationEnded("committed") =>
        /\ messages = login.msgs0
        /\ \A s \in DOMAIN login.cs0 :
              chat_sessions[s].title = login.cs0[s].title
        /\ SameViewAfterSignIn =>
              /\ scroll.status = 200
              /\ scroll.page = login.view0.page

\* C9's case: a page of two messages or more is asked for again after the
\* migration
HistoryViewedAgain ==
    /\ MigrationEnded("committed")
    /\ SameViewAfterSignIn
    /\ Len(login.view0.page) >= 2

\* C10: a migration that fails inside authenticateWithMigration is not raised:
\* the call returns isAuthenticated = true with the authenticated user and a
\* cookie that carries this user's id (and no anonymous token), and the
\* anonymous user's chat sessions keep their owner.
SignInSurvivesFailedMigration ==
    (login.pc = "done" /\ login.failedAt # "none") =>
        /\ ~login.raised
        /\ login.result.isAuthenticated
        /\ login.result.user = login.authId
        /\ login.authId \in DOMAIN users
        /\ users[login.authId].workos_id = login.workosUserId
        /\ ~users[login.authId].is_anonymous
        /\ login.result.session =
              [userId |-> login.authId, sessionId |-> NoId]
        /\ \A s \in login.owned0 :
              chat_sessions[s].user_id = login.currentUserId

\* C10's case: the second UPDATE of the migration has failed for a visitor who
\* owns a chat session and signs in for the first time
FirstSignInWithFailedMigration ==
    /\ login.pc = "done"
    /\ login.failedAt = "trxUser"
    /\ login.owned0 # {}
    /\ login.newId = login.authId

\* the request of the sign-in carries an anonymous cookie
AnonymousRequest == login.cookie.sessionId # NoId

\* a step in which the page's loader of the sign-in's request resolves its
\* user id (requireSession)
NestedResolves ==
    /\ scroll'.nested
    /\ scroll.pc \in {"idle", "got"}
    /\ scroll'.pc = "session"

\* a step in which that loader looks its chat session up (getChatSession)
NestedLooksUp ==
    /\ scroll.nested
    /\ scroll.pc = "session"
    /\ scroll'.pc # "session"

\* the chat sessions of the anonymous user are being reassigned, or have been
Reassigning ==
    \/ login.pc \in {"trxUser", "trxCommit"}
    \/ login.pc = "done" /\ login.outcome = "committed"

\* C15: in a request that carries an authenticated identity and an anonymous
\* cookie the migration is over before any other operation of the request
\* resolves a user id, and no loader of the request looks a chat session up
\* under the anonymous user id while or after the sessions are reassigned.
MigrationBeforeLoaders ==
    [][AnonymousRequest =>
          /\ NestedResolves => login.pc = "done"
          /\ (NestedLooksUp /\ scroll.userId = login.currentUserId)
                => ~Reassigning]_vars

----------------------------------------------------------------------------
(* Properties of requireSession *)

\* the cookie carries a user id and a session token that no user row has
Unresolvable(cookie) ==
    /\ cookie.userId # NoId
    /\ cookie.sessionId # NoId
    /\ getUserBySessionId(users, cookie.sessionId) = NoId

\* C11: a request whose cookie carries a session token (and a user id) that
\* matches no user row is refused by requireSession with a session-invalid
\* error, and no user row is inserted for it: it is never answered under a
\* fresh anonymous identity.
StaleCookieRefused ==
    \A r \in Reqs :
        (turn[r].pc # "idle" /\ Unresolvable(turn[r].cookie)) =>
            /\ turn[r].newUser = NoId
            /\ turn[r].pc = "done"
            /\ turn[r].result = "raised"

----------------------------------------------------------------------------
(* Properties of access control *)

\* user u owns the chat session s
Owns(u, s) == s \in DOMAIN chat_sessions /\ chat_sessions[s].user_id = u

\* the request leaves the tables of sessions and messages as they are
NoChatWrite == UNCHANGED <<chat_sessions, messages>>

\* a step of the action, invoked on a session id other than "new", up to the
\* answer of getChatSession: when the session does not exist or is not owned
\* by the caller the invocation ends with a 404 (or with the error of the
\* failed statement) and has read no message
ActionRefused(r) ==
    /\ (turn[r].pc \in {"idle", "done"} /\ turn'[r].pc = "session"
            /\ turn'[r].param # NewParam) => NoChatWrite
    /\ (turn[r].pc = "session" /\ turn[r].param # NewParam
            /\ ~Owns(turn[r].userId, turn[r].param) /\ turn'[r] # turn[r]) =>
          /\ NoChatWrite
          /\ turn'[r].pc = "done"
          /\ turn'[r].result \in {"404", "raised"}
          /\ turn'[r].result = "raised" => turn'[r].dbError
          /\ turn'[r].history = <<>>

\* the same for a step of the history loader
LoaderRefused ==
    /\ (scroll.pc \in {"idle", "got"} /\ scroll'.pc = "session") => NoChatWrite
    /\ (scroll.pc = "session" /\ ~Owns(scroll.userId, scroll.param)
            /\ scroll' # scroll) =>
          /\ NoChatWrite
          /\ scroll'.pc = "got"
          /\ scroll'.status = 404
          /\ scroll'.page = <<>>

----------------------------------------------------------------------------
(* Properties of overlapping turns *)

\* C13: a session's title is written only while it is null: a title that is
\* not null is never overwritten, also when two send-message turns on the
\* session overlap and both get a title from the title service.
TitleWrittenOnce ==
    [][\A s \in DOMAIN chat_sessions :
          chat_sessions[s].title # NULL =>
              chat_sessions'[s].title = chat_sessions[s].title]_vars

\* C18: within a session the ids of the messages increase in the order in
\* which the messages become visible in the store, also when two send-message
\* turns on the session overlap and each draws its id before its INSERT: no
\* message becomes visible with an id below that of a message of the session
\* that is visible already.
IdsFollowVisibility ==
    [][\A m \in messages' \ messages :
          \A v \in messages :
              v.chat_session_id = m.chat_session_id => v.id < m.id]_vars

----------------------------------------------------------------------------
(* Properties of identities after a sign-in *)

\* requireSession answers a request that carries cookie as the anonymous user
\* the cookie names
ResolvedAsAnonymous(cookie) ==
    LET rs == requireSession(users, cookie, now)
    IN  /\ ~rs.created
        /\ ~rs.isAuthenticated
        /\ rs.userId = cookie.userId

\* C16: after the migration of anonymous user A has completed, A's row is
\* still in the store but is_anonymous is no longer true for it, and a request
\* that presents A's old cookie is not resolved to A as an anonymous identity.
MigratedUserRetired ==
    MigrationEnded("committed") =>
        /\ login.currentUserId \in DOMAIN users
        /\ ~users[login.currentUserId].is_anonymous
        /\ ~ResolvedAsAnonymous(login.cookie)


\* C17: once a cookie is in the authenticated state (the id of an
\* authenticated user and no session token), every requireSession call made
\* with it from then on returns isAuthenticated = true for that user and
\* inserts no anonymous user: the cookie never resolves to an anonymous
\* identity again.
AuthenticatedStays ==
    /\ \A c \in AuthenticatedCookies :
          LET rs == requireSession(users, c, now)
          IN  /\ rs.isAuthenticated
              /\ rs.userId = c.userId
              /\ ~rs.created
              /\ rs.users = users
              /\ rs.session = c
    /\ (scroll.pc # "idle" /\ scroll.cookie \in AuthenticatedCookies) =>
          /\ scroll.userId = scroll.cookie.userId
          /\ scroll.newUser = NoId
          /\ scroll.session = scroll.cookie

\* C17's case: the cookie of a sign-in has been presented again after the
\* logout, by a visitor who had been anonymous
AuthenticatedCookieReplayed ==
    /\ login.loggedOut
    /\ login.outcome = "committed"
    /\ scroll.pc = "got"
    /\ scroll.cookie = login.result.session
    /\ scroll.status = 200

----------------------------------------------------------------------------
(* Properties of repeated migrations *)

\* C19: running migrateAnonymousUserToAuthenticated(A, U) a second time, after
\* or side by side with a first run, yields the ownership of running it once:
\* once a call has committed, every session that A owned when that call began
\* is owned by U and every session that another user owned then is owned by
\* that user, whatever the other call has done or is doing.
MigrationTwiceAsOnce ==
    \A m \in Calls :
        migration[m].outcome = "committed" =>
            \A s \in DOMAIN migration[m].cs0 :
                chat_sessions[s].user_id =
                    IF migration[m].cs0[s].user_id = MigratedFrom
                    THEN MigratedTo
                    ELSE migration[m].cs0[s].user_id

\* both calls have committed, the second began while the first was running,
\* and A and another user owned sessions when they began
MigratedTwice ==
    /\ \A m \in Calls : migration[m].outcome = "committed"
    /\ \E m \in Calls :
        /\ migration[m].overlapped
        /\ \E s, o \in DOMAIN migration[m].cs0 :
            /\ migration[m].cs0[s].user_id = MigratedFrom
            /\ migration[m].cs0[o].user_id = 2

----------------------------------------------------------------------------
(* Properties of the upstream requests of a turn *)

----------------------------------------------------------------------------
(* Properties of the writes of a turn *)

\* the user message of invocation r is in the store, and the session carries
\* the time of the turn's first bump, or a later one
UserTurnStored(r) ==
    /\ \E m \in messages :
        /\ m.id = turn[r].userMid
        /\ m.chat_session_id = turn[r].sid
        /\ m.role = "user"
        /\ m.content = turn[r].message
    /\ turn[r].sid \in DOMAIN chat_sessions
    /\ chat_sessions[turn[r].sid].updated_at >= turn[r].userAt
    /\ turn[r].userAt > 0

\* C21: in a send-message turn the user message is persisted and the session's
\* updated_at is bumped before either upstream request is issued, and both
\* remain in the store whatever the upstream calls do afterwards: from the
\* state in which the requests are out, through every outcome of the calls, to
\* the end of the invocation.
UserMessageBeforeRequests ==
    \A r \in Reqs :
        (turn[r].issued.chat \/ turn[r].issued.title) =>
            UserTurnStored(r)

\* a turn whose completion call was rejected has ended, and its user message
\* and bump are in the store
UserMessageOutlivesFailure ==
    \E r \in Reqs :
        /\ turn[r].pc = "done"
        /\ turn[r].chat.status = "rejected"
        /\ UserTurnStored(r)

----------------------------------------------------------------------------
(* Properties of concurrent sign-ins *)

\* C22: two authenticateWithMigration calls for one external identity id that
\* run side by side while no user row for that id exists (the lookup of each
\* found none) both complete successfully and return the same user, and at
\* most one user row with that id ever exists.
ConcurrentFirstSignIns ==
    /\ Cardinality(usersWithIdentity(users, WorkosUserId, WorkosEmail)) <= 1
    /\ (\A c \in SignIns : signins[c].pc = "done" /\ ~signins[c].found) =>
            /\ \A c \in SignIns : signins[c].outcome = "returned"
            /\ \A c, d \in SignIns :
                    signins[c].result.user = signins[d].result.user

\* C23: every return of authenticateWithMigration, whether the migration ran,
\* was skipped or failed, leaves the cookie session with userId equal to the
\* authenticated user's id and with no sessionId.
ReturnedCookieIsAuthenticated ==
    (login.pc = "done" /\ ~login.raised) =>
        /\ login.outcome \in {"committed", "skipped", "failed"}
        /\ login.authId = getUserByWorkOSId(users, login.workosUserId)
        /\ login.authId # NoId
        /\ login.result.session.userId = login.authId
        /\ login.result.session.sessionId = NoId

\* a sign-in that came with an anonymous cookie (user id and token) has
\* migrated and returned
AnonymousCookieRewritten ==
    /\ login.pc = "done"
    /\ login.outcome = "committed"
    /\ login.cookie.sessionId # NoId
    /\ login.cookie.userId # login.authId

----------------------------------------------------------------------------
(* Properties of ownership *)

\* the chat sessions whose owner a step changes
OwnerChanged ==
    { s \in DOMAIN chat_sessions \cap DOMAIN chat_sessions' :
        chat_sessions'[s].user_id # chat_sessions[s].user_id }

\* a step in which the transaction of migrateAnonymousUserToAuthenticated(A, U)
\* commits, called by authenticateWithMigration for a cookie whose user A is
\* not the authenticated user U and is an anonymous user of the store, or
\* called on its own: the sessions that change owner go from A to U
MigrationCommits ==
    \/ /\ login.pc = "trxCommit"
       /\ login'.outcome = "committed"
       /\ login.currentUserId # login.authId
       /\ selectAnonymousUser(users, login.currentUserId) # NoId
       /\ \A s \in OwnerChanged :
            /\ chat_sessions[s].user_id = login.currentUserId
            /\ chat_sessions'[s].user_id = login.authId
    \/ \E c \in SignIns :
        /\ signins[c].pc = "migrate"
        /\ signins'[c].migrated = "committed"
        /\ signins[c].currentUserId # signins[c].authId
        /\ selectAnonymousUser(users, signins[c].currentUserId) # NoId
        /\ \A s \in OwnerChanged :
            /\ chat_sessions[s].user_id = signins[c].currentUserId
            /\ chat_sessions'[s].user_id = signins[c].authId
    \/ \E m \in Calls :
        /\ migration[m].pc = "trxCommit"
        /\ migration'[m].outcome = "committed"
        /\ \A s \in OwnerChanged :
            /\ chat_sessions[s].user_id = MigratedFrom
            /\ chat_sessions'[s].user_id = MigratedTo

----------------------------------------------------------------------------
(* Properties of the users table *)

\* a row as requireSession makes it: the anonymous token only
AnonymousRow(row) ==
    /\ row.session_id # NoId
    /\ row.workos_id = NULL
    /\ row.is_anonymous

\* a row as getOrCreateWorkOSUser makes it: the external identity id only
WorkOSRow(row) ==
    /\ row.session_id = NoId
    /\ row.workos_id # NULL
    /\ ~row.is_anonymous

\* C25: in every reachable state every user row has exactly one of session_id
\* (anonymous token) and workos_id (external identity id): the rows made by
\* requireSession have the token only and is_anonymous = true, the rows made
\* by getOrCreateWorkOSUser have the external id only and is_anonymous =
\* false, and no operation sets the other field, or changes either, later.
OneIdentityPerUser ==
    /\ [](\A u \in DOMAIN users :
            /\ (users[u].session_id # NoId) # (users[u].workos_id # NULL)
            /\ AnonymousRow(users[u]) \/ WorkOSRow(users[u]))
    /\ [][\A u \in DOMAIN users :
            /\ u \in DOMAIN users'
            /\ users'[u].session_id = users[u].session_id
            /\ users'[u].workos_id = users[u].workos_id
            /\ users'[u].is_anonymous = users[u].is_anonymous]_vars

\* a visitor without a cookie was given an anonymous row, a sign-in has made
\* the row of the WorkOS user, and a migration has written the row of the
\* anonymous user it migrated
BothKindsOfUsers ==
    /\ \E u \in DOMAIN users : u > 2 /\ AnonymousRow(users[u])
    /\ \E u \in DOMAIN users : u > 2 /\ WorkOSRow(users[u])
    /\ \E u \in DOMAIN users : AnonymousRow(users[u]) /\ users[u].updated_at > 0
    /\ \E c \in SignIns : signins[c].migrated = "committed"

----------------------------------------------------------------------------
(* Properties of the chat page *)

\* C26: each load-more request of the chat page uses as its 'before' cursor
\* the smallest message id among all messages the page has accumulated so far
\* (the initial page and every page loaded since).
CursorIsOldestSeen ==
    (scroll.fetches > 0 /\ scroll.pc \in {"session", "messages"}) =>
        \A i \in 1..Len(scroll.seen) : scroll.before <= scroll.seen[i]

----------------------------------------------------------------------------
(* Properties of the messages table *)

\* C27: messages are append-only: no operation (a send-message turn, a
\* history load, a migration, a title or timestamp update) changes the id,
\* session, role, content, reasoning or context of a message that is in the
\* store, or removes one; a step only adds rows, and never a row with the id
\* of a row that is there.
MessagesAppendOnly ==
    [][/\ messages \subseteq messages'
       /\ \A m \in messages' \ messages :
            \A v \in messages : v.id # m.id]_vars

\* a turn has appended its user message and its reply to a session that held
\* messages before, and has set the title and the timestamp
AppendedToHistory ==
    \E r \in Reqs :
        /\ turn[r].pc = "done"
        /\ turn[r].result = "redirect"
        /\ turn[r].asst # {}
        /\ \E m \in messages :
            /\ m.chat_session_id = turn[r].sid
            /\ m.id < turn[r].userMid
        /\ chat_sessions[turn[r].sid].title # NULL

----------------------------------------------------------------------------
(* Properties of the catch block and of the action's other branches *)

\* C28: within one send-message action the fallback assistant message is
\* written only if no assistant message has been persisted for that turn: a
\* failure of the timestamp bump or of the title update that follows the
\* INSERT of the reply does not make the action write a second assistant
\* message.
FallbackOnlyWithoutReply ==
    [][\A r \in Reqs :
          (turn[r].pc = "fallbackMsg" /\ turn'[r].pc = "bump3") =>
              turn[r].asst = {}]_vars

\* C29: an action that returns an error value (a message that is empty or
\* white space only, or an intent it does not know) leaves the store as it
\* found it: it has inserted no message and no chat session, also when the
\* route's session id is "new".
ErrorLeavesStoreUnchanged ==
    \A r \in Reqs :
        (turn[r].pc = "done" /\ turn[r].result = "error") =>
            /\ turn[r].created = {}
            /\ turn[r].userMid = NoId
            /\ turn[r].asst = {}

\* C30: every invocation of the chat action creates at most one chat session,
\* and the session it redirects to is the one it created: for the session id
\* "new" with intent "new-chat" or "send-message", exactly one new session,
\* owned by the resolved user, exists after the action.
AtMostOneSessionCreated ==
    \A r \in Reqs :
        /\ Cardinality(turn[r].created) <= 1
        /\ (turn[r].pc = "done" /\ turn[r].result = "redirect"
                /\ turn[r].param = NewParam) =>
              /\ turn[r].created = {turn[r].sid}
              /\ chat_sessions[turn[r].sid].user_id = turn[r].userId

====
